---- MODULE Spec2Model ----
(***************************************************************************)
(* State-machine model of the KGSL IOMMU backend                           *)
(* (drivers/gpu/msm/kgsl_iommu.c): context discovery, start/stop, the      *)
(* pagetable switch (setstate) and the attach/detach loops.                *)
(*                                                                         *)
(* Two specifications:                                                     *)
(*   Spec      every mmu operation is one atomic action (serialized use);  *)
(*   SpecConc  kgsl_iommu_setstate is executed statement by statement by   *)
(*             several threads under the caller-held global lock.          *)
(***************************************************************************)
EXTENDS Integers, Sequences, FiniteSets, TLC

(***************************************************************************)
(* Program constants and model bounds                                      *)
(***************************************************************************)
\* the null pointer, for pagetable pointers
NULL == 0
\* size of kgsl_iommu.iommu_units[]
KGSL_IOMMU_MAX_UNITS == 2
\* size of kgsl_iommu_unit.dev[]
KGSL_IOMMU_MAX_DEVS_PER_UNIT == 2
\* the pagetable kgsl_mmu_getpagetable(KGSL_MMU_GLOBAL_PT) hands out
KGSL_MMU_GLOBAL_PT == 1
\* bound: number of pagetables that exist (1 .. NumPT)
NumPT == 2
\* bound: number of threads calling setstate in SpecConc
NumThreads == 2

Pagetables == 1 .. NumPT
PtPointers == Pagetables \cup {NULL}
Threads == 1 .. NumThreads

\* a NULL iommu_domain pointer / a NULL struct device pointer
NoDomain == <<>>
NoDev == <<>>

\* pagetable->priv: the iommu_domain created for the pagetable
PtPriv(pt) == IF pt = NULL THEN NoDomain ELSE <<"domain", pt>>

\* the hardware contexts the platform can resolve: one per descriptor slot
Devs == (1 .. KGSL_IOMMU_MAX_UNITS) \X (1 .. KGSL_IOMMU_MAX_DEVS_PER_UNIT)

(***************************************************************************)
(* Platform data (struct kgsl_device_platform_data.iommu_data[])           *)
(* iommu_ctx_name: "ok" a name the platform resolves, "bad" a name it      *)
(* cannot resolve, "none" a NULL name.  ctx_id: "USER", "PRIV" or          *)
(* "INVALID" (any other number).                                           *)
(***************************************************************************)
CtxEntries ==
    { [iommu_ctx_name |-> "ok",   ctx_id |-> "USER"],
      [iommu_ctx_name |-> "ok",   ctx_id |-> "PRIV"],
      [iommu_ctx_name |-> "ok",   ctx_id |-> "INVALID"],
      [iommu_ctx_name |-> "bad",  ctx_id |-> "USER"],
      [iommu_ctx_name |-> "none", ctx_id |-> "INVALID"] }

SeqsUpTo(S, n) == UNION { [1 .. k -> S] : k \in 0 .. n }

\* one unit too long for dev[]: only its length matters
OverlongUnit ==
    [k \in 1 .. KGSL_IOMMU_MAX_DEVS_PER_UNIT + 1 |->
        [iommu_ctx_name |-> "ok", ctx_id |-> "USER"]]

\* the units of the model: every list of entries that fits dev[], a PRIV
\* entry being the last of its unit (this only thins out the inputs), and
\* the overlong unit
UnitDescs ==
    { u \in SeqsUpTo(CtxEntries, KGSL_IOMMU_MAX_DEVS_PER_UNIT) :
        \A k \in 1 .. Len(u) : u[k].ctx_id = "PRIV" => k = Len(u) }
    \cup {OverlongUnit}

\* one descriptor with too many units: only its length matters
OvercountData ==
    [i \in 1 .. KGSL_IOMMU_MAX_UNITS + 1 |->
        << [iommu_ctx_name |-> "ok", ctx_id |-> "USER"] >>]

Descriptors == SeqsUpTo(UnitDescs, KGSL_IOMMU_MAX_UNITS) \cup {OvercountData}

\* msm_iommu_get_ctx(name) for the entry k of unit i
msm_iommu_get_ctx(i, k, name) == IF name = "ok" THEN <<i, k>> ELSE NoDev

(***************************************************************************)
(* struct kgsl_iommu as kzalloc leaves it                                  *)
(***************************************************************************)
ZeroDev == [dev |-> NoDev, ctx_id |-> "USER", attached |-> FALSE]
ZeroUnit ==
    [dev_count |-> 0,
     dev |-> [j \in 1 .. KGSL_IOMMU_MAX_DEVS_PER_UNIT |-> ZeroDev]]
ZeroIommu ==
    [unit_count |-> 0,
     iommu_units |-> [i \in 1 .. KGSL_IOMMU_MAX_UNITS |-> ZeroUnit]]

VARIABLES
    pdata,            \* pdev->dev.platform_data: the unit descriptors
    priv,             \* mmu->priv: "NULL" or "iommu"
    iommu,            \* the struct kgsl_iommu mmu->priv points to
    started,          \* mmu->flags & KGSL_FLAGS_STARTED
    hwpagetable,      \* mmu->hwpagetable
    defaultpagetable, \* mmu->defaultpagetable
    hwbind,           \* hardware: the domain each context is bound to
    hwlog,            \* calls the last operation made to its collaborators
    lastop,           \* the last operation: its name, argument and result,
                      \* the state before it (pre), the operation before it
                      \* (prev: name, argument, active pagetable before it)
    panicked,         \* a BUG_ON fired
    lock,             \* SpecConc: holder of the global lock, 0 if free
    thr,              \* SpecConc: each thread's position and locals
    ptobj,            \* the pagetable object mmu->defaultpagetable points to:
                      \* its reference count, the kgsl_mmu_putpagetable calls
                      \* made on it and the iommu_domain_free calls made on
                      \* its domain
    closes,           \* SpecClose: the mmu_close calls made so far
    mapop,            \* SpecMap: the last mmu_map or mmu_unmap call: its
                      \* arguments, its result and the calls it made to the
                      \* domain
    waiting_for_crash_ipi, \* SpecCrash: the atomic counter of line 90
    crashcpu,         \* SpecCrash: the CPU in machine_crash_shutdown: its
                      \* position, msecs, the value its last atomic_read
                      \* returned, what it printed and saved
    cpus,             \* SpecCrash: each other CPU's position in
                      \* machine_crash_nonpanic_core and what it has done
    ctxcalls          \* SpecCalls: for each context, the kind of the last
                      \* hardware call issued for it and of the last one
                      \* that succeeded, and whether the calls so far
                      \* alternated

vars == << pdata, priv, iommu, started, hwpagetable, defaultpagetable,
           hwbind, hwlog, lastop, panicked, lock, thr, ptobj, closes,
           mapop, waiting_for_crash_ipi, crashcpu, cpus, ctxcalls >>

\* the crash path of machine_kexec.c
crashvars == << waiting_for_crash_ipi, crashcpu, cpus >>

\* the state the controller's start, stop and switch operations leave alone
aux == << closes, mapop, crashvars, ctxcalls >>

\* the controller and its hardware contexts, which mapping memory leaves alone
mmuvars == << pdata, priv, iommu, started, hwpagetable, defaultpagetable,
              hwbind, hwlog, lastop, lock, thr, ptobj, ctxcalls >>

(***************************************************************************)
(* The loop order of both attach and detach: units, then contexts          *)
(***************************************************************************)
RECURSIVE UnitOrder(_, _, _)
UnitOrder(io, i, j) ==
    IF j > io.iommu_units[i].dev_count THEN <<>>
    ELSE << <<i, j>> >> \o UnitOrder(io, i, j + 1)

\* the loops of lines 73 and 116 counting the units down instead of up
RECURSIVE DevOrderBackwards(_, _)
DevOrderBackwards(io, i) ==
    IF i > io.unit_count THEN <<>>
    ELSE DevOrderBackwards(io, i + 1) \o UnitOrder(io, i, 1)

RECURSIVE DevOrder(_, _)
DevOrder(io, i) ==
    IF i > io.unit_count THEN <<>>
    ELSE UnitOrder(io, i, 1) \o DevOrder(io, i + 1)

Call(fn, domain, dev, ret) == [fn |-> fn, domain |-> domain, dev |-> dev, ret |-> ret]

SetAttached(io, i, j, b) ==
    [io EXCEPT !.iommu_units[i].dev[j].attached = b]

(***************************************************************************)
(* Hardware collaborators (linux/iommu.h).  m is the memory the loops      *)
(* work on: [iommu, hwbind, log].                                          *)
(***************************************************************************)
\* iommu_detach_device(domain, dev): unbinds dev from domain
iommu_detach_device(m, domain, dev) ==
    [m EXCEPT !.hwbind[dev] = IF @ = domain THEN NoDomain ELSE @,
              !.log = Append(@, Call("detach", domain, dev, "OK"))]

\* iommu_attach_device(domain, dev) accepted by the hardware
iommu_attach_device(m, domain, dev) ==
    [m EXCEPT !.hwbind[dev] = domain,
              !.log = Append(@, Call("attach", domain, dev, "OK"))]

\* iommu_attach_device(domain, dev) rejected by the hardware
iommu_attach_rejected(m, domain, dev) ==
    [m EXCEPT !.log = Append(@, Call("attach", domain, dev, "EATTACH"))]

(***************************************************************************)
(* kgsl_detach_pagetable_iommu_domain, lines 73-85: one loop iteration     *)
(* and the whole loop                                                      *)
(***************************************************************************)
DetachOneUnguarded(m, domain, i, j) ==
    LET d == m.iommu.iommu_units[i].dev[j] IN
    [iommu_detach_device(m, domain, d.dev)
       EXCEPT !.iommu = SetAttached(@, i, j, FALSE)]

DetachOne(m, domain, i, j) ==
    LET d == m.iommu.iommu_units[i].dev[j] IN
    IF d.attached
    THEN [iommu_detach_device(m, domain, d.dev)
            EXCEPT !.iommu = SetAttached(@, i, j, FALSE)]
    ELSE m

RECURSIVE DetachLoop(_, _, _, _)
DetachLoop(m, domain, order, k) ==
    IF k > Len(order) THEN m
    ELSE DetachLoop(DetachOne(m, domain, order[k][1], order[k][2]),
                    domain, order, k + 1)

\* lines 68-69: the two BUG_ONs both loops start with
DomainBug(hwpt) == hwpt = NULL \/ PtPriv(hwpt) = NoDomain

kgsl_detach_pagetable_iommu_domain(m, hwpt) ==
    DetachLoop(m, PtPriv(hwpt), DevOrder(m.iommu, 1), 1)

(***************************************************************************)
(* kgsl_attach_pagetable_iommu_domain, lines 116-137.  rej is the context  *)
(* the hardware rejects (NoDev: none).  The result carries ret.            *)
(***************************************************************************)
AttachOne(m, domain, i, j, rej) ==
    LET d == m.iommu.iommu_units[i].dev[j] IN
    IF ~d.attached
    THEN IF rej # NoDev /\ d.dev = rej
         THEN [m |-> iommu_attach_rejected(m, domain, d.dev), ret |-> "EATTACH"]
         ELSE [m |-> [iommu_attach_device(m, domain, d.dev)
                        EXCEPT !.iommu = SetAttached(@, i, j, TRUE)],
               ret |-> "OK"]
    ELSE [m |-> m, ret |-> "OK"]

RECURSIVE AttachLoop(_, _, _, _, _)
AttachLoop(m, domain, order, k, rej) ==
    IF k > Len(order) THEN [m |-> m, ret |-> "OK"]
    ELSE LET r == AttachOne(m, domain, order[k][1], order[k][2], rej) IN
         IF r.ret # "OK" THEN r
         ELSE AttachLoop(r.m, domain, order, k + 1, rej)

\* the attach loop starting at the second unit
kgsl_attach_skips_first_unit(m, hwpt, rej) ==
    AttachLoop(m, PtPriv(hwpt), DevOrder(m.iommu, 2), 1, rej)

kgsl_attach_pagetable_iommu_domain(m, hwpt, rej) ==
    AttachLoop(m, PtPriv(hwpt), DevOrder(m.iommu, 1), 1, rej)

(***************************************************************************)
(* _get_iommu_ctxs, lines 151-192: u is iommu_units[unit_id], data the     *)
(* unit's platform data.  Result: [ret, unit].                             *)
(***************************************************************************)
RECURSIVE GetCtxLoop(_, _, _, _)
GetCtxLoop(u, data, unit_id, i) ==
    IF i > Len(data) THEN [ret |-> "OK", unit |-> u]
    ELSE IF data[i].iommu_ctx_name = "none"
    THEN GetCtxLoop(u, data, unit_id, i + 1)
    ELSE LET n == u.dev_count + 1
             h == msm_iommu_get_ctx(unit_id, i, data[i].iommu_ctx_name)
             u1 == [u EXCEPT !.dev[n].dev = h]
         IN  IF h = NoDev THEN [ret |-> "EINVAL", unit |-> u1]
             ELSE IF data[i].ctx_id \notin {"USER", "PRIV"}
             THEN [ret |-> "EINVAL", unit |-> u1]
             ELSE GetCtxLoop([u1 EXCEPT !.dev[n].ctx_id = data[i].ctx_id,
                                        !.dev_count = n],
                             data, unit_id, i + 1)

get_iommu_ctxs(u, data, unit_id) ==
    IF Len(data) > KGSL_IOMMU_MAX_DEVS_PER_UNIT
    THEN [ret |-> "EINVAL", unit |-> u]
    ELSE GetCtxLoop(u, data, unit_id, 1)

(***************************************************************************)
(* kgsl_get_iommu_ctxt, lines 202-226.  Result: [ret, iommu].              *)
(***************************************************************************)
RECURSIVE GetUnitLoop(_, _, _)
GetUnitLoop(io, pd, i) ==
    IF i > Len(pd) THEN [ret |-> "OK", iommu |-> io]
    ELSE LET r == get_iommu_ctxs(io.iommu_units[i], pd[i], i)
             io1 == [io EXCEPT !.iommu_units[i] = r.unit]
         IN  IF r.ret # "OK" THEN [ret |-> r.ret, iommu |-> io1]
             ELSE GetUnitLoop(io1, pd, i + 1)

\* kgsl_get_iommu_ctxt without the break of line 221: a later unit's
\* result overwrites the error
RECURSIVE GetUnitLoopNoBreak(_, _, _, _)
GetUnitLoopNoBreak(io, pd, i, ret) ==
    IF i > Len(pd) THEN [ret |-> ret, iommu |-> io]
    ELSE LET r == get_iommu_ctxs(io.iommu_units[i], pd[i], i) IN
         GetUnitLoopNoBreak([io EXCEPT !.iommu_units[i] = r.unit], pd, i + 1, r.ret)

kgsl_get_iommu_ctxt_nobreak(io, pd) ==
    IF KGSL_IOMMU_MAX_UNITS < Len(pd)
    THEN [ret |-> "EINVAL", iommu |-> io]
    ELSE LET r == GetUnitLoopNoBreak(io, pd, 1, "OK") IN
         [ret |-> r.ret, iommu |-> [r.iommu EXCEPT !.unit_count = Len(pd)]]

kgsl_get_iommu_ctxt(io, pd) ==
    IF KGSL_IOMMU_MAX_UNITS < Len(pd)
    THEN [ret |-> "EINVAL", iommu |-> io]
    ELSE LET r == GetUnitLoop(io, pd, 1) IN
         [ret |-> r.ret, iommu |-> [r.iommu EXCEPT !.unit_count = Len(pd)]]

(***************************************************************************)
(* The mmu operations as functions of the state s =                        *)
(* [priv, iommu, started, hwpagetable, defaultpagetable, hwbind, panicked] *)
(* and of what the collaborators answer.  Result: [s, log, ret].           *)
(***************************************************************************)
Mem(s, log) == [iommu |-> s.iommu, hwbind |-> s.hwbind, log |-> log]
WithMem(s, m) == [s EXCEPT !.iommu = m.iommu, !.hwbind = m.hwbind]
Panic(s, log) == [s |-> [s EXCEPT !.panicked = TRUE], log |-> log, ret |-> "BUG"]

\* kgsl_iommu_init, lines 248-281.  alloc: kzalloc succeeds
iommu_init(s, pd, alloc) ==
    IF ~alloc THEN [s |-> s, log |-> <<>>, ret |-> "ENOMEM"]
    ELSE LET r == kgsl_get_iommu_ctxt(ZeroIommu, pd) IN
         IF r.ret # "OK"
         THEN [s |-> [s EXCEPT !.priv = "NULL", !.iommu = ZeroIommu],
               log |-> <<>>, ret |-> r.ret]
         ELSE [s |-> [s EXCEPT !.priv = "iommu", !.iommu = r.iommu],
               log |-> <<>>, ret |-> "OK"]

\* kgsl_iommu_start that forgets the rollback of a failed attach (line 304)
iommu_start_norollback(s, got, rej) ==
    IF s.started THEN [s |-> s, log |-> <<>>, ret |-> "OK"]
    ELSE
    LET log0 == << Call("regwrite", NoDomain, NoDev, "OK") >>
        dp == IF s.defaultpagetable = NULL THEN got ELSE s.defaultpagetable
        s1 == [s EXCEPT !.defaultpagetable = dp]
    IN  IF dp = NULL THEN [s |-> s1, log |-> log0, ret |-> "ENOMEM"]
        ELSE
        LET s2 == [s1 EXCEPT !.hwpagetable = dp]
            a == kgsl_attach_pagetable_iommu_domain(Mem(s2, log0), s2.hwpagetable, rej)
        IN  IF a.ret = "OK"
            THEN [s |-> [WithMem(s2, a.m) EXCEPT !.started = TRUE],
                  log |-> a.m.log, ret |-> "OK"]
            ELSE [s |-> [WithMem(s2, a.m) EXCEPT !.hwpagetable = NULL],
                  log |-> a.m.log, ret |-> a.ret]

\* kgsl_iommu_start, lines 283-309.  got: what kgsl_mmu_getpagetable
\* returns, rej: the context the hardware rejects
iommu_start(s, got, rej) ==
    IF s.started THEN [s |-> s, log |-> <<>>, ret |-> "OK"]
    ELSE
    LET log0 == << Call("regwrite", NoDomain, NoDev, "OK") >>
        dp == IF s.defaultpagetable = NULL THEN got ELSE s.defaultpagetable
        s1 == [s EXCEPT !.defaultpagetable = dp]
    IN  IF dp = NULL THEN [s |-> s1, log |-> log0, ret |-> "ENOMEM"]
        ELSE
        LET s2 == [s1 EXCEPT !.hwpagetable = dp] IN
        IF DomainBug(s2.hwpagetable) THEN Panic(s2, log0)
        ELSE
        LET a == kgsl_attach_pagetable_iommu_domain(Mem(s2, log0), s2.hwpagetable, rej) IN
        IF a.ret = "OK"
        THEN [s |-> [WithMem(s2, a.m) EXCEPT !.started = TRUE],
              log |-> a.m.log, ret |-> "OK"]
        ELSE LET m == kgsl_detach_pagetable_iommu_domain(a.m, s2.hwpagetable) IN
             [s |-> [WithMem(s2, m) EXCEPT !.hwpagetable = NULL],
              log |-> m.log, ret |-> a.ret]

\* kgsl_iommu_stop that clears the pointer and the flag without detaching
iommu_stop_nodetach(s) ==
    IF s.started
    THEN [s |-> [s EXCEPT !.hwpagetable = NULL, !.started = FALSE],
          log |-> <<>>, ret |-> "OK"]
    ELSE [s |-> s, log |-> <<>>, ret |-> "OK"]

\* kgsl_iommu_stop, lines 365-383
iommu_stop(s) ==
    IF s.started
    THEN IF DomainBug(s.hwpagetable) THEN Panic(s, <<>>)
         ELSE LET m == kgsl_detach_pagetable_iommu_domain(Mem(s, <<>>), s.hwpagetable) IN
              [s |-> [WithMem(s, m) EXCEPT !.hwpagetable = NULL, !.started = FALSE],
               log |-> m.log, ret |-> "OK"]
    ELSE [s |-> s, log |-> <<>>, ret |-> "OK"]

\* kgsl_iommu_setstate that waits for the device to idle (line 239) after
\* the switch instead of before it
iommu_setstate_idlelast(s, pagetable, idle, rej) ==
    IF s.started /\ s.hwpagetable # pagetable
    THEN
    IF DomainBug(s.hwpagetable) THEN Panic(s, <<>>)
    ELSE
    LET m == kgsl_detach_pagetable_iommu_domain(Mem(s, <<>>), s.hwpagetable)
        s1 == [WithMem(s, m) EXCEPT !.hwpagetable = pagetable]
        a == IF s1.hwpagetable = NULL THEN [m |-> m]
             ELSE kgsl_attach_pagetable_iommu_domain(m, s1.hwpagetable, rej)
    IN  [s |-> WithMem(s1, a.m), ret |-> "void",
         log |-> Append(a.m.log, Call("kgsl_idle", NoDomain, NoDev, idle))]
    ELSE [s |-> s, log |-> <<>>, ret |-> "void"]

\* kgsl_iommu_setstate that stores the new pointer (line 241) before the
\* detach of line 240
iommu_setstate_swapfirst(s, pagetable, idle, rej) ==
    IF s.started /\ s.hwpagetable # pagetable
    THEN
    LET log0 == << Call("kgsl_idle", NoDomain, NoDev, idle) >>
        s0 == [s EXCEPT !.hwpagetable = pagetable]
    IN
    IF DomainBug(s0.hwpagetable) THEN Panic(s0, log0)
    ELSE
    LET m == kgsl_detach_pagetable_iommu_domain(Mem(s0, log0), s0.hwpagetable)
        a == kgsl_attach_pagetable_iommu_domain(m, s0.hwpagetable, rej)
    IN  [s |-> WithMem(s0, a.m), log |-> a.m.log, ret |-> "void"]
    ELSE [s |-> s, log |-> <<>>, ret |-> "void"]

\* kgsl_iommu_setstate without the KGSL_FLAGS_STARTED test of line 234
iommu_setstate_nostarted(s, pagetable, idle, rej) ==
    IF s.hwpagetable # pagetable
    THEN
    LET log0 == << Call("kgsl_idle", NoDomain, NoDev, idle) >> IN
    IF DomainBug(s.hwpagetable) THEN Panic(s, log0)
    ELSE
    LET m == kgsl_detach_pagetable_iommu_domain(Mem(s, log0), s.hwpagetable)
        s1 == [WithMem(s, m) EXCEPT !.hwpagetable = pagetable]
    IN  IF s1.hwpagetable = NULL
        THEN [s |-> s1, log |-> m.log, ret |-> "void"]
        ELSE LET a == kgsl_attach_pagetable_iommu_domain(m, s1.hwpagetable, rej) IN
             [s |-> WithMem(s1, a.m), log |-> a.m.log, ret |-> "void"]
    ELSE [s |-> s, log |-> <<>>, ret |-> "void"]

\* kgsl_iommu_setstate without the comparison of line 238
iommu_setstate_nocompare(s, pagetable, idle, rej) ==
    IF s.started
    THEN
    LET log0 == << Call("kgsl_idle", NoDomain, NoDev, idle) >> IN
    IF DomainBug(s.hwpagetable) THEN Panic(s, log0)
    ELSE
    LET m == kgsl_detach_pagetable_iommu_domain(Mem(s, log0), s.hwpagetable)
        s1 == [WithMem(s, m) EXCEPT !.hwpagetable = pagetable]
    IN  IF s1.hwpagetable = NULL
        THEN [s |-> s1, log |-> m.log, ret |-> "void"]
        ELSE LET a == kgsl_attach_pagetable_iommu_domain(m, s1.hwpagetable, rej) IN
             [s |-> WithMem(s1, a.m), log |-> a.m.log, ret |-> "void"]
    ELSE [s |-> s, log |-> <<>>, ret |-> "void"]

\* kgsl_iommu_setstate, lines 228-246.  idle: what kgsl_idle returns
\* ("OK" or "ETIMEDOUT"), rej: the context the hardware rejects
iommu_setstate(s, pagetable, idle, rej) ==
    IF s.started /\ s.hwpagetable # pagetable
    THEN
    LET log0 == << Call("kgsl_idle", NoDomain, NoDev, idle) >> IN
    IF DomainBug(s.hwpagetable) THEN Panic(s, log0)
    ELSE
    LET m == kgsl_detach_pagetable_iommu_domain(Mem(s, log0), s.hwpagetable)
        s1 == [WithMem(s, m) EXCEPT !.hwpagetable = pagetable]
    IN  IF s1.hwpagetable = NULL
        THEN [s |-> s1, log |-> m.log, ret |-> "void"]
        ELSE IF DomainBug(s1.hwpagetable) THEN Panic(s1, m.log)
        ELSE LET a == kgsl_attach_pagetable_iommu_domain(m, s1.hwpagetable, rej) IN
             [s |-> WithMem(s1, a.m), log |-> a.m.log, ret |-> "void"]
    ELSE [s |-> s, log |-> <<>>, ret |-> "void"]

(***************************************************************************)
(* State, initial state, actions                                           *)
(***************************************************************************)
Cur ==
    [priv |-> priv, iommu |-> iommu, started |-> started,
     hwpagetable |-> hwpagetable, defaultpagetable |-> defaultpagetable,
     hwbind |-> hwbind, panicked |-> panicked]

Commit(name, pt, res) ==
    LET r == res IN
    /\ priv' = r.s.priv
    /\ iommu' = r.s.iommu
    /\ started' = r.s.started
    /\ hwpagetable' = r.s.hwpagetable
    /\ defaultpagetable' = r.s.defaultpagetable
    /\ hwbind' = r.s.hwbind
    /\ panicked' = r.s.panicked
    /\ hwlog' = r.log
    /\ lastop' = [name |-> name, pagetable |-> pt, ret |-> r.ret, pre |-> Cur,
                  prev |-> [name |-> lastop.name, pagetable |-> lastop.pagetable,
                            hwpagetable |-> lastop.pre.hwpagetable]]
    /\ UNCHANGED << pdata, lock, thr >>

\* no hardware call issued for a context yet
NoCalls == [last |-> "none", lastok |-> "none", alt |-> TRUE, altok |-> TRUE]

\* the CPUs other than the one that crashes
NumOtherCpus == 2
OtherCpus == 1 .. NumOtherCpus

\* a CPU that has not crashed and has not been told of a crash
CpuRunning == [pc |-> "running", saved |-> FALSE, flushed |-> FALSE, decs |-> 0]
\* the CPU that will crash, before it does; online: num_online_cpus() - 1
CrashCpuRunning ==
    [pc |-> "running", online |-> 0, msecs |-> 0, read |-> 0, polls |-> 0,
     warned |-> FALSE, saved |-> FALSE]

\* no mmu_map or mmu_unmap call yet
NoMapOp == [fn |-> "none", domain |-> NoDomain, gpuaddr |-> 0, size |-> 0,
            protflags |-> {}, hwret |-> "OK", ret |-> "OK", calls |-> <<>>]

\* no pagetable object yet: nothing holds a reference
NoObject == [refcount |-> 0, puts |-> 0, frees |-> 0]

ThreadIdle == [pc |-> "idle", pagetable |-> NULL, domain |-> NoDomain, i |-> 0, j |-> 0]

InitWith(D) ==
    /\ pdata \in D
    /\ priv = "NULL"
    /\ iommu = ZeroIommu
    /\ started = FALSE
    /\ hwpagetable = NULL
    /\ defaultpagetable = NULL
    /\ hwbind = [d \in Devs |-> NoDomain]
    /\ hwlog = <<>>
    /\ panicked = FALSE
    /\ lock = 0
    /\ thr = [t \in Threads |-> ThreadIdle]
    /\ ptobj = NoObject
    /\ closes = 0
    /\ mapop = NoMapOp
    /\ waiting_for_crash_ipi = 0
    /\ crashcpu = CrashCpuRunning
    /\ cpus = [c \in OtherCpus |-> CpuRunning]
    /\ ctxcalls = [d \in Devs |-> NoCalls]
    /\ lastop = [name |-> "none", pagetable |-> NULL, ret |-> "void",
                 pre |-> [priv |-> "NULL", iommu |-> ZeroIommu, started |-> FALSE,
                          hwpagetable |-> NULL, defaultpagetable |-> NULL,
                          hwbind |-> [d \in Devs |-> NoDomain],
                          panicked |-> FALSE],
                 prev |-> [name |-> "none", pagetable |-> NULL,
                           hwpagetable |-> NULL]]

Init == InitWith(Descriptors)

\* an operation can be called: the kernel is alive, the caller gets the
\* global lock ("call this with the global lock held", lines 253 and 370)
\* and the controller has not been closed
Callable == ~panicked /\ lock = 0 /\ closes = 0

\* mmu_ops.mmu_init, on a controller that is not initialized
mmu_init ==
    /\ Callable
    /\ priv = "NULL"
    /\ \E alloc \in BOOLEAN : Commit("init", NULL, iommu_init(Cur, pdata, alloc))

\* the contexts an attach loop may ask the hardware to attach, and so the
\* ones it can see rejected; NoDev: the hardware rejects none
Rejectable == { iommu.iommu_units[o[1]].dev[o[2]].dev :
                    o \in { DevOrder(iommu, 1)[k] : k \in 1 .. Len(DevOrder(iommu, 1)) } }
                \cup {NoDev}

\* mmu_ops.mmu_start, on an initialized controller.  The collaborators are
\* asked only on the paths that call them.
mmu_start ==
    /\ Callable
    /\ priv = "iommu"
    /\ IF started
       THEN Commit("start", NULL, iommu_start(Cur, NULL, NoDev))
       ELSE \E got \in (IF defaultpagetable = NULL
                        THEN {KGSL_MMU_GLOBAL_PT, NULL} ELSE {NULL}),
               rej \in Rejectable :
               Commit("start", NULL, iommu_start(Cur, got, rej))

\* mmu_ops.mmu_stop
mmu_stop ==
    /\ Callable
    /\ Commit("stop", NULL, iommu_stop(Cur))

\* mmu_ops.mmu_setstate
mmu_setstate ==
    /\ Callable
    /\ \E pagetable \in PtPointers :
          IF started /\ hwpagetable # pagetable
          THEN \E idle \in {"OK", "ETIMEDOUT"},
                  rej \in (IF pagetable = NULL THEN {NoDev} ELSE Rejectable) :
                  Commit("setstate", pagetable,
                         iommu_setstate(Cur, pagetable, idle, rej))
          ELSE Commit("setstate", pagetable,
                      iommu_setstate(Cur, pagetable, "OK", NoDev))

\* the controller's operations as the driver core calls them; they leave the
\* memory mappings, the pagetable object's reference count and the crash
\* path alone
kgsl_iommu_init == mmu_init /\ UNCHANGED << aux, ptobj >>
\* line 294: the pagetable kgsl_mmu_getpagetable hands out carries the
\* reference the controller now holds
kgsl_mmu_getpagetable ==
    ptobj' = IF defaultpagetable = NULL /\ defaultpagetable' # NULL
             THEN [ptobj EXCEPT !.refcount = 1]
             ELSE ptobj
kgsl_iommu_start == mmu_start /\ kgsl_mmu_getpagetable /\ UNCHANGED aux
kgsl_iommu_stop == mmu_stop /\ UNCHANGED << aux, ptobj >>
kgsl_iommu_setstate == mmu_setstate /\ UNCHANGED << aux, ptobj >>

Next ==
    \/ kgsl_iommu_init
    \/ kgsl_iommu_start
    \/ kgsl_iommu_stop
    \/ kgsl_iommu_setstate

Spec == Init /\ [][Next]_vars

(***************************************************************************)
(* SpecConc: kgsl_iommu_setstate statement by statement, one call per      *)
(* thread at a time.  thr[t] holds the thread's position (pc), its         *)
(* argument (pagetable) and the locals of the loop it is in (domain, i,    *)
(* j).  init, start and stop stay atomic: their callers hold the global    *)
(* lock for the whole call.                                                *)
(***************************************************************************)
At(t, label) == ~panicked /\ thr[t].pc = label
Goto(t, label) == thr' = [thr EXCEPT ![t].pc = label]
LoopMem == [iommu |-> iommu, hwbind |-> hwbind, log |-> <<>>]

\* the caller of mmu_setstate takes the global lock
mutex_available == lock = 0

\* a thread sets out to call mmu_setstate
ss_call(t) ==
    /\ At(t, "idle")
    /\ Goto(t, "ss_lock")
    /\ UNCHANGED << aux, ptobj, pdata, priv, iommu, started, hwpagetable, defaultpagetable,
                    hwbind, hwlog, lastop, panicked, lock >>

\* it gets the global lock and enters kgsl_iommu_setstate with some pagetable
ss_lock(t) ==
    /\ At(t, "ss_lock")
    /\ mutex_available
    /\ lock' = t
    /\ \E pagetable \in PtPointers :
          thr' = [thr EXCEPT ![t].pc = "ss_started", ![t].pagetable = pagetable]
    /\ UNCHANGED << aux, ptobj, pdata, priv, iommu, started, hwpagetable, defaultpagetable,
                    hwbind, hwlog, lastop, panicked >>

\* line 234
ss_started(t) ==
    /\ At(t, "ss_started")
    /\ Goto(t, IF started THEN "ss_compare" ELSE "ss_return")
    /\ UNCHANGED << aux, ptobj, pdata, priv, iommu, started, hwpagetable, defaultpagetable,
                    hwbind, hwlog, lastop, panicked, lock >>

\* line 238
ss_compare(t) ==
    /\ At(t, "ss_compare")
    /\ Goto(t, IF hwpagetable # thr[t].pagetable THEN "ss_idle" ELSE "ss_return")
    /\ UNCHANGED << aux, ptobj, pdata, priv, iommu, started, hwpagetable, defaultpagetable,
                    hwbind, hwlog, lastop, panicked, lock >>

\* kgsl_iommu_setstate storing the new pointer before it detaches
ss_idle_swapfirst(t) ==
    /\ At(t, "ss_idle")
    /\ hwpagetable' = thr[t].pagetable
    /\ Goto(t, "ss_detach_enter")
    /\ UNCHANGED << aux, ptobj, pdata, priv, iommu, started, defaultpagetable,
                    hwbind, hwlog, lastop, panicked, lock >>

\* line 239: kgsl_idle returns, with whatever result
ss_idle(t) ==
    /\ At(t, "ss_idle")
    /\ Goto(t, "ss_detach_enter")
    /\ UNCHANGED << aux, ptobj, pdata, priv, iommu, started, hwpagetable, defaultpagetable,
                    hwbind, hwlog, lastop, panicked, lock >>

\* lines 68-71
ss_detach_enter(t) ==
    /\ At(t, "ss_detach_enter")
    /\ IF DomainBug(hwpagetable)
       THEN panicked' = TRUE /\ UNCHANGED thr
       ELSE /\ UNCHANGED panicked
            /\ thr' = [thr EXCEPT ![t].pc = "ss_detach_loop",
                                  ![t].domain = PtPriv(hwpagetable),
                                  ![t].i = 1, ![t].j = 1]
    /\ UNCHANGED << aux, ptobj, pdata, priv, iommu, started, hwpagetable, defaultpagetable,
                    hwbind, hwlog, lastop, lock >>

\* lines 73-85: one evaluation of a loop condition and, inside, one body
ss_detach_loop(t) ==
    /\ At(t, "ss_detach_loop")
    /\ LET i == thr[t].i
           j == thr[t].j
       IN  IF i > iommu.unit_count
           THEN Goto(t, "ss_swap") /\ UNCHANGED << iommu, hwbind >>
           ELSE IF j > iommu.iommu_units[i].dev_count
           THEN /\ thr' = [thr EXCEPT ![t].i = i + 1, ![t].j = 1]
                /\ UNCHANGED << iommu, hwbind >>
           ELSE LET m == DetachOne(LoopMem, thr[t].domain, i, j) IN
                /\ iommu' = m.iommu
                /\ hwbind' = m.hwbind
                /\ thr' = [thr EXCEPT ![t].j = j + 1]
    /\ UNCHANGED << aux, ptobj, pdata, priv, started, hwpagetable, defaultpagetable,
                    hwlog, lastop, panicked, lock >>

\* lines 241-242
ss_swap(t) ==
    /\ At(t, "ss_swap")
    /\ hwpagetable' = thr[t].pagetable
    /\ Goto(t, IF thr[t].pagetable # NULL THEN "ss_attach_enter" ELSE "ss_return")
    /\ UNCHANGED << aux, ptobj, pdata, priv, iommu, started, defaultpagetable,
                    hwbind, hwlog, lastop, panicked, lock >>

\* lines 107-110
ss_attach_enter(t) ==
    /\ At(t, "ss_attach_enter")
    /\ IF DomainBug(hwpagetable)
       THEN panicked' = TRUE /\ UNCHANGED thr
       ELSE /\ UNCHANGED panicked
            /\ thr' = [thr EXCEPT ![t].pc = "ss_attach_loop",
                                  ![t].domain = PtPriv(hwpagetable),
                                  ![t].i = 1, ![t].j = 1]
    /\ UNCHANGED << aux, ptobj, pdata, priv, iommu, started, hwpagetable, defaultpagetable,
                    hwbind, hwlog, lastop, lock >>

\* lines 116-137: one evaluation of a loop condition and, inside, one body
ss_attach_loop(t) ==
    /\ At(t, "ss_attach_loop")
    /\ LET i == thr[t].i
           j == thr[t].j
       IN  IF i > iommu.unit_count
           THEN Goto(t, "ss_return") /\ UNCHANGED << iommu, hwbind >>
           ELSE IF j > iommu.iommu_units[i].dev_count
           THEN /\ thr' = [thr EXCEPT ![t].i = i + 1, ![t].j = 1]
                /\ UNCHANGED << iommu, hwbind >>
           ELSE \E rejected \in BOOLEAN :
                LET dev == iommu.iommu_units[i].dev[j].dev
                    a == AttachOne(LoopMem, thr[t].domain, i, j,
                                   IF rejected THEN dev ELSE NoDev)
                IN  /\ iommu' = a.m.iommu
                    /\ hwbind' = a.m.hwbind
                    /\ thr' = IF a.ret = "OK"
                              THEN [thr EXCEPT ![t].j = j + 1]
                              ELSE [thr EXCEPT ![t].pc = "ss_return"]
    /\ UNCHANGED << aux, ptobj, pdata, priv, started, hwpagetable, defaultpagetable,
                    hwlog, lastop, panicked, lock >>

\* line 246, and the caller releases the global lock
ss_return(t) ==
    /\ At(t, "ss_return")
    /\ lock' = IF lock = t THEN 0 ELSE lock
    /\ thr' = [thr EXCEPT ![t] = ThreadIdle]
    /\ UNCHANGED << aux, ptobj, pdata, priv, iommu, started, hwpagetable, defaultpagetable,
                    hwbind, hwlog, lastop, panicked >>

\* the platform data of SpecConc: units [ctxA], [ctxB, ctxC]
ConcDescriptors ==
    { << << [iommu_ctx_name |-> "ok", ctx_id |-> "USER"] >>,
         << [iommu_ctx_name |-> "ok", ctx_id |-> "USER"],
            [iommu_ctx_name |-> "ok", ctx_id |-> "PRIV"] >> >> }

InitConc == InitWith(ConcDescriptors)

NextConc ==
    \/ kgsl_iommu_init
    \/ kgsl_iommu_start
    \/ kgsl_iommu_stop
    \/ \E t \in Threads : ss_call(t)
    \/ \E t \in Threads : ss_lock(t)
    \/ \E t \in Threads : ss_started(t)
    \/ \E t \in Threads : ss_compare(t)
    \/ \E t \in Threads : ss_idle(t)
    \/ \E t \in Threads : ss_detach_enter(t)
    \/ \E t \in Threads : ss_detach_loop(t)
    \/ \E t \in Threads : ss_swap(t)
    \/ \E t \in Threads : ss_attach_enter(t)
    \/ \E t \in Threads : ss_attach_loop(t)
    \/ \E t \in Threads : ss_return(t)

SpecConc == InitConc /\ [][NextConc]_vars

(***************************************************************************)
(* SpecClose: the controller's life up to and through mmu_close, with the  *)
(* reference the controller holds on its default pagetable.                *)
(***************************************************************************)
MaxCloses == 2

\* kgsl_iommu_destroy_pagetable, lines 34-39, on the object's domain
kgsl_iommu_destroy_pagetable(o, domain) ==
    IF domain # NoDomain THEN [o EXCEPT !.frees = @ + 1] ELSE o

\* kgsl_mmu_putpagetable(pagetable): drops one reference, the last one
\* destroys the pagetable.  On an object already destroyed it is a use
\* after free: it may destroy the object again or not.
kgsl_mmu_putpagetable(o, pagetable) ==
    LET put == [o EXCEPT !.puts = @ + 1] IN
    IF o.refcount > 1 THEN { [put EXCEPT !.refcount = @ - 1] }
    ELSE IF o.refcount = 1
    THEN { kgsl_iommu_destroy_pagetable([put EXCEPT !.refcount = 0],
                                        PtPriv(pagetable)) }
    ELSE { put, kgsl_iommu_destroy_pagetable(put, PtPriv(pagetable)) }

\* mmu_ops.mmu_close, lines 385-392
kgsl_iommu_close ==
    /\ ~panicked
    /\ lock = 0
    /\ closes < MaxCloses
    /\ closes' = closes + 1
    /\ IF defaultpagetable # NULL
       THEN ptobj' \in kgsl_mmu_putpagetable(ptobj, defaultpagetable)
       ELSE UNCHANGED ptobj
    /\ hwlog' = <<>>
    /\ lastop' = [name |-> "close", pagetable |-> NULL, ret |-> "OK", pre |-> Cur,
                  prev |-> [name |-> lastop.name, pagetable |-> lastop.pagetable,
                            hwpagetable |-> lastop.pre.hwpagetable]]
    /\ UNCHANGED << pdata, priv, iommu, started, hwpagetable, defaultpagetable,
                    hwbind, panicked, lock, thr, mapop, crashvars, ctxcalls >>

InitClose == InitWith(ConcDescriptors)

NextClose ==
    \/ kgsl_iommu_init
    \/ kgsl_iommu_start
    \/ kgsl_iommu_stop
    \/ kgsl_iommu_setstate
    \/ kgsl_iommu_close

SpecClose == InitClose /\ [][NextClose]_vars

(***************************************************************************)
(* SpecMap: mmu_map and mmu_unmap on memory descriptors.  Addresses are    *)
(* 0 .. MaxAddr and the alignment unit is KGSL_MMU_ALIGN addresses, so     *)
(* that there are non-zero addresses that the alignment mask turns to 0.   *)
(***************************************************************************)
MaxAddr == 9
MaxSize == 2
KGSL_MMU_ALIGN == 4

\* gpuaddr & KGSL_MMU_ALIGN_MASK, line 324
AlignMasked(gpuaddr) == gpuaddr - (gpuaddr % KGSL_MMU_ALIGN)

\* protection flags (linux/iommu.h and kgsl): what callers may ask for
ProtFlags == { {"IOMMU_READ"}, {"IOMMU_READ", "IOMMU_WRITE"} }

MemDescs == [gpuaddr : 0 .. MaxAddr, size : 0 .. MaxSize]
MapDomains == { NoDomain, PtPriv(KGSL_MMU_GLOBAL_PT) }

\* a call to the domain: iommu_map_range or iommu_unmap_range
RangeCall(fn, domain, addr, len, prot, ret) ==
    [fn |-> fn, domain |-> domain, addr |-> addr, len |-> len, prot |-> prot,
     ret |-> ret]

\* kgsl_iommu_unmap that returns what iommu_unmap_range returned
iommu_unmap_propagates(domain, memdesc, hwret) ==
    LET range == memdesc.size
        gpuaddr == AlignMasked(memdesc.gpuaddr)
    IN  IF range = 0 \/ gpuaddr = 0
        THEN [ret |-> "OK", calls |-> <<>>, bug |-> FALSE]
        ELSE [ret |-> hwret, bug |-> FALSE,
              calls |-> << RangeCall("iommu_unmap_range", domain, gpuaddr, range,
                                     {}, hwret) >>]

\* kgsl_iommu_unmap, lines 311-336.  hwret: what iommu_unmap_range returns
iommu_unmap(domain, memdesc, hwret) ==
    LET range == memdesc.size
        gpuaddr == AlignMasked(memdesc.gpuaddr)
    IN  IF range = 0 \/ gpuaddr = 0
        THEN [ret |-> "OK", calls |-> <<>>, bug |-> FALSE]
        ELSE [ret |-> "OK", bug |-> FALSE,
              calls |-> << RangeCall("iommu_unmap_range", domain, gpuaddr, range,
                                     {}, hwret) >>]

\* kgsl_iommu_map without the BUG_ON of line 348
iommu_map_unchecked(domain, memdesc, protflags, hwret) ==
    [ret |-> hwret, bug |-> FALSE,
     calls |-> << RangeCall("iommu_map_range", domain, memdesc.gpuaddr,
                            memdesc.size, {"IOMMU_READ", "IOMMU_WRITE"},
                            hwret) >>]

\* kgsl_iommu_map, lines 338-363.  hwret: what iommu_map_range returns
iommu_map(domain, memdesc, protflags, hwret) ==
    IF domain = NoDomain
    THEN [ret |-> "BUG", calls |-> <<>>, bug |-> TRUE]
    ELSE [ret |-> hwret, bug |-> FALSE,
          calls |-> << RangeCall("iommu_map_range", domain, memdesc.gpuaddr,
                                 memdesc.size, {"IOMMU_READ", "IOMMU_WRITE"},
                                 hwret) >>]

MapCommit(fn, domain, memdesc, protflags, hwret, res) ==
    /\ mapop' = [fn |-> fn, domain |-> domain, gpuaddr |-> memdesc.gpuaddr,
                 size |-> memdesc.size, protflags |-> protflags,
                 hwret |-> hwret, ret |-> res.ret, calls |-> res.calls]
    /\ panicked' = res.bug
    /\ UNCHANGED << mmuvars, closes, crashvars >>

\* mmu_ops.mmu_unmap; the domain is asked only when the range is usable
kgsl_iommu_unmap ==
    /\ ~panicked
    /\ \E domain \in MapDomains, memdesc \in MemDescs :
          \E hwret \in (IF memdesc.size = 0 \/ AlignMasked(memdesc.gpuaddr) = 0
                         THEN {"OK"} ELSE {"OK", "EINVAL"}) :
             MapCommit("unmap", domain, memdesc, {}, hwret,
                       iommu_unmap(domain, memdesc, hwret))

\* mmu_ops.mmu_map; the domain is asked only when there is one
kgsl_iommu_map ==
    /\ ~panicked
    /\ \E domain \in MapDomains, memdesc \in MemDescs, protflags \in ProtFlags :
          \E hwret \in (IF domain = NoDomain THEN {"OK"} ELSE {"OK", "ENOMEM"}) :
             MapCommit("map", domain, memdesc, protflags, hwret,
                       iommu_map(domain, memdesc, protflags, hwret))

InitMap == InitWith(ConcDescriptors)

NextMap ==
    \/ kgsl_iommu_map
    \/ kgsl_iommu_unmap

SpecMap == InitMap /\ [][NextMap]_vars

(***************************************************************************)
(* SpecCrash: machine_crash_shutdown on the crashing CPU and               *)
(* machine_crash_nonpanic_core on the others (machine_kexec.c).  The       *)
(* crashing CPU runs with interrupts off and busy-waits, so it always      *)
(* takes its next step; another CPU may never react to the IPI.            *)
(***************************************************************************)
CRASH_WAIT_MSECS == 1000

Online(c) == c <= crashcpu.online
notcrash == << mmuvars, panicked, closes, mapop >>

\* lines 125-127: interrupts off, the counter set to the other online CPUs
cs_begin ==
    /\ crashcpu.pc = "running"
    /\ \E n \in 0 .. NumOtherCpus :
          /\ crashcpu' = [crashcpu EXCEPT !.pc = "ipi", !.online = n]
          /\ waiting_for_crash_ipi' = n
    /\ UNCHANGED << cpus, notcrash >>

\* lines 128-129: smp_call_function(machine_crash_nonpanic_core, NULL,
\* false) interrupts every other online CPU and does not wait; msecs = 1000
cs_send_ipi ==
    /\ crashcpu.pc = "ipi"
    /\ cpus' = [c \in OtherCpus |->
                   IF Online(c) THEN [cpus[c] EXCEPT !.pc = "entered"] ELSE cpus[c]]
    /\ crashcpu' = [crashcpu EXCEPT !.pc = "poll", !.msecs = CRASH_WAIT_MSECS]
    /\ UNCHANGED << waiting_for_crash_ipi, notcrash >>

\* the loop of lines 130-133 with a body that does not count msecs down
cs_poll_nocountdown ==
    /\ crashcpu.pc = "poll"
    /\ IF waiting_for_crash_ipi > 0 /\ crashcpu.msecs # 0
       THEN crashcpu' = [crashcpu EXCEPT !.read = waiting_for_crash_ipi]
       ELSE crashcpu' = [crashcpu EXCEPT !.read = waiting_for_crash_ipi,
                                         !.pc = "check"]
    /\ UNCHANGED << waiting_for_crash_ipi, cpus, notcrash >>

\* lines 130-133: one test of the loop condition and, if it holds, one
\* pass through the body (mdelay(1); msecs--)
cs_poll ==
    /\ crashcpu.pc = "poll"
    /\ IF waiting_for_crash_ipi > 0 /\ crashcpu.msecs # 0
       THEN crashcpu' = [crashcpu EXCEPT !.read = waiting_for_crash_ipi,
                                         !.msecs = @ - 1, !.polls = @ + 1]
       ELSE crashcpu' = [crashcpu EXCEPT !.read = waiting_for_crash_ipi,
                                         !.pc = "check"]
    /\ UNCHANGED << waiting_for_crash_ipi, cpus, notcrash >>

\* lines 134-135: the warning if the counter is still above zero
cs_check ==
    /\ crashcpu.pc = "check"
    /\ crashcpu' = [crashcpu EXCEPT !.read = waiting_for_crash_ipi,
                                    !.warned = waiting_for_crash_ipi > 0,
                                    !.pc = "save"]
    /\ UNCHANGED << waiting_for_crash_ipi, cpus, notcrash >>

\* lines 137-139: crash_save_cpu for the crashing CPU, then the return
cs_save ==
    /\ crashcpu.pc = "save"
    /\ crashcpu' = [crashcpu EXCEPT !.saved = TRUE, !.pc = "done"]
    /\ UNCHANGED << waiting_for_crash_ipi, cpus, notcrash >>

\* lines 110-113: crash_setup_regs, printk, crash_save_cpu
np_save(c) ==
    /\ cpus[c].pc = "entered"
    /\ cpus' = [cpus EXCEPT ![c].saved = TRUE, ![c].pc = "saved"]
    /\ UNCHANGED << waiting_for_crash_ipi, crashcpu, notcrash >>

\* machine_crash_nonpanic_core that goes on to atomic_dec without
\* flush_cache_all
np_flush_skipped(c) ==
    /\ cpus[c].pc = "saved"
    /\ cpus' = [cpus EXCEPT ![c].pc = "flushed"]
    /\ UNCHANGED << waiting_for_crash_ipi, crashcpu, notcrash >>

\* line 114: flush_cache_all
np_flush(c) ==
    /\ cpus[c].pc = "saved"
    /\ cpus' = [cpus EXCEPT ![c].flushed = TRUE, ![c].pc = "flushed"]
    /\ UNCHANGED << waiting_for_crash_ipi, crashcpu, notcrash >>

\* lines 116-118: atomic_dec, then the CPU spins in cpu_relax for good
np_dec(c) ==
    /\ cpus[c].pc = "flushed"
    /\ waiting_for_crash_ipi' = waiting_for_crash_ipi - 1
    /\ cpus' = [cpus EXCEPT ![c].decs = @ + 1, ![c].pc = "stopped"]
    /\ UNCHANGED << crashcpu, notcrash >>

machine_crash_shutdown ==
    \/ cs_send_ipi
    \/ cs_poll
    \/ cs_check
    \/ cs_save

InitCrash == InitWith(ConcDescriptors)

NextCrash ==
    \/ cs_begin
    \/ cs_send_ipi
    \/ cs_poll
    \/ cs_check
    \/ cs_save
    \/ \E c \in OtherCpus : np_save(c)
    \/ \E c \in OtherCpus : np_flush(c)
    \/ \E c \in OtherCpus : np_dec(c)

SpecCrash == InitCrash /\ [][NextCrash]_vars /\ WF_vars(machine_crash_shutdown)

(***************************************************************************)
(* SpecCalls: init, start, stop and setstate, one at a time, with the      *)
(* history of the hardware calls issued for each context.                  *)
(***************************************************************************)
\* the history of a context after one more call to the hardware
AfterCall(h, c) ==
    LET counted == ~(c.fn = "attach" /\ c.ret # "OK") IN
    [last |-> c.fn,
     alt |-> h.alt /\ c.fn # h.last /\ (h.last = "none" => c.fn = "attach"),
     lastok |-> IF counted THEN c.fn ELSE h.lastok,
     altok |-> IF counted
               THEN h.altok /\ c.fn # h.lastok
                    /\ (h.lastok = "none" => c.fn = "attach")
               ELSE h.altok]

\* the histories after the calls of log from call k on
RECURSIVE Track(_, _, _)
Track(calls, log, k) ==
    IF k > Len(log) THEN calls
    ELSE Track(IF log[k].fn \in {"attach", "detach"}
               THEN [calls EXCEPT ![log[k].dev] = AfterCall(@, log[k])]
               ELSE calls,
               log, k + 1)

Tracked ==
    /\ ctxcalls' = Track(ctxcalls, hwlog', 1)
    /\ UNCHANGED << closes, mapop, crashvars >>

tracked_init == mmu_init /\ UNCHANGED ptobj /\ Tracked
tracked_start == mmu_start /\ kgsl_mmu_getpagetable /\ Tracked
tracked_stop == mmu_stop /\ UNCHANGED ptobj /\ Tracked
tracked_setstate == mmu_setstate /\ UNCHANGED ptobj /\ Tracked

InitCalls == InitWith(ConcDescriptors)

NextCalls ==
    \/ tracked_init
    \/ tracked_start
    \/ tracked_stop
    \/ tracked_setstate

SpecCalls == InitCalls /\ [][NextCalls]_vars

(***************************************************************************)
(* Vocabulary of the properties                                            *)
(***************************************************************************)
Slots == (1 .. KGSL_IOMMU_MAX_UNITS) \X (1 .. KGSL_IOMMU_MAX_DEVS_PER_UNIT)
DevAt(io, sl) == io.iommu_units[sl[1]].dev[sl[2]]
DiscoveredSlots(io) ==
    { sl \in Slots : sl[1] <= io.unit_count
                     /\ sl[2] <= io.iommu_units[sl[1]].dev_count }
AllAttached(io) == \A sl \in DiscoveredSlots(io) : DevAt(io, sl).attached
NoneAttached(io) == \A sl \in Slots : ~DevAt(io, sl).attached
AllBoundTo(io, hb, domain) ==
    \A sl \in DiscoveredSlots(io) : hb[DevAt(io, sl).dev] = domain
NothingBound(hb) == \A d \in Devs : hb[d] = NoDomain

Issued(log, fn) == \E k \in 1 .. Len(log) : log[k].fn = fn
AttachRejected(log) ==
    \E k \in 1 .. Len(log) : log[k].fn = "attach" /\ log[k].ret # "OK"
IdleTimedOut(log) ==
    \E k \in 1 .. Len(log) : log[k].fn = "kgsl_idle" /\ log[k].ret = "ETIMEDOUT"

\* the last operation was a switch: setstate on a started controller with
\* a pagetable other than the active one
WasSwitch ==
    /\ lastop.name = "setstate"
    /\ lastop.pre.started
    /\ lastop.pagetable # lastop.pre.hwpagetable

\* the platform data as the properties read it
NamedSlots(u) == { k \in 1 .. Len(u) : u[k].iommu_ctx_name # "none" }
ValidData(pd) ==
    /\ Len(pd) <= KGSL_IOMMU_MAX_UNITS
    /\ \A i \in 1 .. Len(pd) :
          /\ Len(pd[i]) <= KGSL_IOMMU_MAX_DEVS_PER_UNIT
          /\ \A k \in NamedSlots(pd[i]) :
                /\ pd[i][k].iommu_ctx_name = "ok"
                /\ pd[i][k].ctx_id \in {"USER", "PRIV"}
FailsValidation(pd) ==
    \/ Len(pd) > KGSL_IOMMU_MAX_UNITS
    \/ \E i \in 1 .. Len(pd) :
          \/ Len(pd[i]) > KGSL_IOMMU_MAX_DEVS_PER_UNIT
          \/ \E k \in NamedSlots(pd[i]) :
                \/ pd[i][k].iommu_ctx_name = "bad"
                \/ pd[i][k].ctx_id \notin {"USER", "PRIV"}

\* the contexts of unit i in the order the platform data names them
ExpectedOf(pd, i) ==
    LET ks == NamedSlots(pd[i]) IN
    [n \in 1 .. Cardinality(ks) |->
        LET k == CHOOSE x \in ks : Cardinality({y \in ks : y <= x}) = n
        IN  << <<i, k>>, pd[i][k].ctx_id >>]
DiscoveredOf(io, i) ==
    [j \in 1 .. io.iommu_units[i].dev_count |->
        << io.iommu_units[i].dev[j].dev, io.iommu_units[i].dev[j].ctx_id >>]
DiscoveryMatches(io, pd) ==
    /\ io.unit_count = Len(pd)
    /\ \A i \in 1 .. KGSL_IOMMU_MAX_UNITS :
          IF i <= Len(pd) THEN DiscoveredOf(io, i) = ExpectedOf(pd, i)
          ELSE io.iommu_units[i].dev_count = 0

(***************************************************************************)
(* C1.  Between operations: if the started flag is set, the active         *)
(* pagetable is non-null and every discovered context is attached; if it   *)
(* is clear, no context is attached.                                       *)
(***************************************************************************)
C1_StartedInvariant ==
    /\ started => hwpagetable # NULL /\ AllAttached(iommu)
    /\ ~started => NoneAttached(iommu)

(***************************************************************************)
(* C2.  A switch whose idle-wait times out is not performed: the active    *)
(* pagetable, the attached flags and the hardware bindings are those from  *)
(* before the call, and no detach has been issued.                         *)
(***************************************************************************)
C2_TimeoutKeepsPagetable ==
    WasSwitch /\ IdleTimedOut(hwlog) =>
        /\ hwpagetable = lastop.pre.hwpagetable
        /\ iommu = lastop.pre.iommu
        /\ hwbind = lastop.pre.hwbind
        /\ ~Issued(hwlog, "detach")

(***************************************************************************)
(* C3.  A switch whose attach the hardware rejects leaves no partial       *)
(* state: the contexts are all attached or all detached, and the active    *)
(* pagetable is the one from before the call.                              *)
(***************************************************************************)
C3_FailedSwitchRollsBack ==
    WasSwitch /\ AttachRejected(hwlog) =>
        /\ AllAttached(iommu) \/ NoneAttached(iommu)
        /\ hwpagetable = lastop.pre.hwpagetable

(***************************************************************************)
(* C4.  start on a stopped controller whose attach the hardware rejects    *)
(* returns the attach error and leaves the controller stopped: flag        *)
(* clear, active pagetable null, no context attached.                      *)
(***************************************************************************)
C4_FailedStartStaysStopped ==
    lastop.name = "start" /\ ~lastop.pre.started /\ AttachRejected(hwlog) =>
        /\ lastop.ret = "EATTACH"
        /\ ~started
        /\ hwpagetable = NULL
        /\ NoneAttached(iommu)

\* a start failed at a context after one that had been attached
C4_Witness ==
    /\ lastop.name = "start"
    /\ ~lastop.pre.started
    /\ lastop.ret = "EATTACH"
    /\ \E k \in 1 .. Len(hwlog) : hwlog[k].fn = "attach" /\ hwlog[k].ret = "OK"
    /\ Issued(hwlog, "detach")

C6_InitStartAttachesAll ==
    ValidData(pdata) =>
        /\ lastop.name = "init" /\ lastop.ret # "ENOMEM" =>
              /\ lastop.ret = "OK"
              /\ priv = "iommu"
              /\ DiscoveryMatches(iommu, pdata)
        /\ lastop.name = "start" /\ lastop.prev.name = "init" =>
              /\ lastop.ret = "OK" =>
                    /\ started
                    /\ hwpagetable = defaultpagetable
                    /\ hwpagetable = KGSL_MMU_GLOBAL_PT
                    /\ DiscoveryMatches(iommu, pdata)
                    /\ AllAttached(iommu)
                    /\ AllBoundTo(iommu, hwbind, PtPriv(defaultpagetable))
              /\ lastop.ret # "OK" =>
                    \/ lastop.ret = "ENOMEM" /\ defaultpagetable = NULL
                    \/ AttachRejected(hwlog)

\* init then start on two units with three contexts in all
C6_Witness ==
    /\ lastop.name = "start"
    /\ lastop.prev.name = "init"
    /\ lastop.ret = "OK"
    /\ iommu.unit_count = 2
    /\ Cardinality(DiscoveredSlots(iommu)) = 3
    /\ AllAttached(iommu)

(***************************************************************************)
(* C7.  With platform data that fails validation (too many units, a unit   *)
(* with too many contexts, a named context that does not resolve or whose  *)
(* kind is neither USER nor PRIV), init returns an error and leaves the    *)
(* controller uninitialized (priv null) with no context attached.          *)
(***************************************************************************)
C7_InvalidDataLeavesUninitialized ==
    FailsValidation(pdata) =>
        /\ priv = "NULL"
        /\ NoneAttached(iommu)
        /\ NothingBound(hwbind)
        /\ lastop.name = "init" => lastop.ret \in {"EINVAL", "ENOMEM"}

\* init failed at the second context of the second unit, after resolving
\* the contexts before it
C7_Witness ==
    /\ lastop.name = "init"
    /\ lastop.ret = "EINVAL"
    /\ Len(pdata) = 2
    /\ Len(pdata[1]) >= 1
    /\ Len(pdata[2]) = 2
    /\ pdata[1][1].iommu_ctx_name = "ok"
    /\ pdata[2][1].iommu_ctx_name = "ok"
    /\ pdata[2][1].ctx_id = "USER"
    /\ pdata[2][2].ctx_id = "INVALID"
    /\ pdata[2][2].iommu_ctx_name = "ok"
    /\ ValidData(<< pdata[1] >>)

(***************************************************************************)
(* C8.  The second of two successive setstate calls with the same          *)
(* pagetable does nothing: no idle-wait, no detach, no attach, and the     *)
(* state is the one before the call.                                       *)
(***************************************************************************)
C8_RepeatedSetstateIsNoop ==
    /\ lastop.name = "setstate"
    /\ lastop.prev.name = "setstate"
    /\ lastop.prev.pagetable = lastop.pagetable
    => /\ hwlog = <<>>
       /\ Cur = lastop.pre

\* the second call follows a first one that switched to a non-default
\* pagetable and saw an attach rejected
C8_Witness ==
    /\ lastop.name = "setstate"
    /\ lastop.prev.name = "setstate"
    /\ lastop.prev.pagetable = lastop.pagetable
    /\ started
    /\ lastop.pagetable \notin {NULL, defaultpagetable}
    /\ hwpagetable = lastop.pagetable
    /\ ~AllAttached(iommu)

(***************************************************************************)
(* C9.  After stop on a started controller no context is attached, and a   *)
(* start that follows and succeeds has every context attached to the       *)
(* default pagetable, whatever pagetable was active before the stop.       *)
(***************************************************************************)
C9_StopStartRoundTrip ==
    /\ lastop.name = "stop" /\ lastop.pre.started => NoneAttached(iommu)
    /\ lastop.name = "start" /\ lastop.prev.name = "stop" /\ lastop.ret = "OK" =>
          /\ started
          /\ hwpagetable = defaultpagetable
          /\ hwpagetable = KGSL_MMU_GLOBAL_PT
          /\ AllAttached(iommu)
          /\ AllBoundTo(iommu, hwbind, PtPriv(defaultpagetable))

\* a start that follows the stop of a controller switched to a non-default
\* pagetable
C9_Witness ==
    /\ lastop.name = "start"
    /\ lastop.ret = "OK"
    /\ lastop.prev.name = "stop"
    /\ lastop.prev.hwpagetable \notin {NULL, defaultpagetable}
    /\ NoneAttached(lastop.pre.iommu)
    /\ Cardinality(DiscoveredSlots(iommu)) >= 2
    /\ AllAttached(iommu)

(***************************************************************************)
(* C10.  stop always succeeds: it returns success without hitting an       *)
(* assertion; on a controller that is not started it changes nothing,      *)
(* otherwise the flag is clear, the active pagetable null and no context   *)
(* attached afterwards.                                                    *)
(***************************************************************************)
C10_StopAlwaysSucceeds ==
    lastop.name = "stop" =>
        /\ lastop.ret = "OK"
        /\ ~panicked
        /\ IF lastop.pre.started
           THEN ~started /\ hwpagetable = NULL /\ NoneAttached(iommu)
           ELSE Cur = lastop.pre

(***************************************************************************)
(* C11: mmu_close is idempotent: after one or more close calls the default *)
(* pagetable's reference has been released once if the controller had a    *)
(* default pagetable and never otherwise, and the domain handle has been   *)
(* freed at most once.                                                     *)
(***************************************************************************)
C11_CloseIdempotent ==
    closes >= 1 =>
        /\ ptobj.puts = (IF defaultpagetable # NULL THEN 1 ELSE 0)
        /\ ptobj.frees <= 1

(***************************************************************************)
(* C12.  setstate on a controller that is not started does nothing,        *)
(* whatever pagetable it is given: it makes no idle-wait, no detach and no *)
(* attach, and the active and default pagetable pointers, the started flag *)
(* and every context's attached flag are the ones before the call.         *)
(***************************************************************************)
C12_SetstateStoppedIsNoop ==
    lastop.name = "setstate" /\ ~lastop.pre.started =>
        /\ hwlog = <<>>
        /\ hwpagetable = lastop.pre.hwpagetable
        /\ defaultpagetable = lastop.pre.defaultpagetable
        /\ started = lastop.pre.started
        /\ iommu = lastop.pre.iommu
        /\ Cur = lastop.pre

\* the controller was started and stopped before, so it has contexts and a
\* default pagetable, and the call names a pagetable that is not the active
\* one
C12_Witness ==
    /\ lastop.name = "setstate"
    /\ ~lastop.pre.started
    /\ priv = "iommu"
    /\ defaultpagetable # NULL
    /\ lastop.pagetable \notin {NULL, hwpagetable}
    /\ lastop.prev.name = "stop"
    /\ Cardinality(DiscoveredSlots(iommu)) >= 2

(***************************************************************************)
(* C13.  unmap returns success for every descriptor and for every outcome  *)
(* of the domain's unmap, and it calls the domain's unmap exactly when the *)
(* descriptor's size is not zero and its base address masked to the        *)
(* alignment is not zero; the call then names the masked address and the   *)
(* size.                                                                   *)
(***************************************************************************)
C13_UnmapAlwaysSucceeds ==
    mapop.fn = "unmap" =>
        /\ mapop.ret = "OK"
        /\ ~panicked
        /\ mapop.calls # <<>> <=>
              mapop.size # 0 /\ mapop.gpuaddr \div KGSL_MMU_ALIGN # 0
        /\ mapop.calls # <<>> =>
              mapop.calls =
                 << RangeCall("iommu_unmap_range", mapop.domain,
                              KGSL_MMU_ALIGN * (mapop.gpuaddr \div KGSL_MMU_ALIGN),
                              mapop.size, {}, mapop.hwret) >>

\* the domain's unmap failed on a usable, unaligned range
C13_Witness ==
    /\ mapop.fn = "unmap"
    /\ mapop.calls # <<>>
    /\ mapop.hwret = "EINVAL"
    /\ mapop.gpuaddr % KGSL_MMU_ALIGN # 0
    /\ mapop.ret = "OK"

(***************************************************************************)
(* C14 as stated.  map with a null domain handle returns the               *)
(* InvalidArgument error to its caller, with no crash or assertion and     *)
(* without calling the domain's map; with a non-null domain it returns the *)
(* result of the domain's map as it is.                                    *)
(***************************************************************************)
C14_MapNullDomainReturnsError ==
    mapop.fn = "map" =>
        /\ mapop.domain = NoDomain =>
              mapop.ret = "EINVAL" /\ ~panicked /\ mapop.calls = <<>>
        /\ mapop.domain # NoDomain => mapop.ret = mapop.hwret

(***************************************************************************)
(* C14 amended.  map with a null domain handle stops on the assertion      *)
(* BUG_ON(NULL == domain) without calling the domain's map; with a         *)
(* non-null domain it calls the domain's map once, for the descriptor's    *)
(* address and size with read and write access, and returns its result as  *)
(* it is.                                                                  *)
(***************************************************************************)
C14_MapNullDomainAsserts ==
    mapop.fn = "map" =>
        /\ mapop.domain = NoDomain =>
              mapop.ret = "BUG" /\ panicked /\ mapop.calls = <<>>
        /\ mapop.domain # NoDomain =>
              /\ ~panicked
              /\ mapop.ret = mapop.hwret
              /\ mapop.calls =
                    << RangeCall("iommu_map_range", mapop.domain, mapop.gpuaddr,
                                 mapop.size, {"IOMMU_READ", "IOMMU_WRITE"},
                                 mapop.hwret) >>

\* a read-only map of a non-empty descriptor on a pagetable without a domain
C14_Witness ==
    /\ mapop.fn = "map"
    /\ mapop.domain = NoDomain
    /\ mapop.size # 0
    /\ mapop.protflags = {"IOMMU_READ"}
    /\ panicked

(***************************************************************************)
(* C15.  machine_crash_shutdown always terminates: for every number of     *)
(* other online CPUs and whichever of them never respond, the crashing CPU *)
(* leaves the polling loop after at most 1000 iterations, prints the       *)
(* warning exactly when the counter is still above zero after the loop,    *)
(* and goes on to save its own state.                                      *)
(***************************************************************************)
C15_CrashShutdownTerminates ==
    /\ [](crashcpu.polls <= CRASH_WAIT_MSECS)
    /\ [](crashcpu.pc \in {"save", "done"} =>
            /\ crashcpu.warned <=> crashcpu.read > 0
            /\ ~crashcpu.warned => waiting_for_crash_ipi = 0
            /\ crashcpu.warned => crashcpu.polls = CRASH_WAIT_MSECS)
    /\ (crashcpu.pc # "running") ~> (crashcpu.pc = "done" /\ crashcpu.saved)

\* the crashing CPU has returned after a full second of polling because one
\* CPU never reacted, while another one did
C15_Witness ==
    /\ crashcpu.pc = "done"
    /\ crashcpu.warned
    /\ crashcpu.polls = CRASH_WAIT_MSECS
    /\ cpus[1].pc = "entered"
    /\ cpus[2].pc = "stopped"

(***************************************************************************)
(* C20.  On the crash path waiting_for_crash_ipi never drops below zero;   *)
(* whenever the crashing CPU reads it as zero, every other online CPU has  *)
(* saved its registers and flushed its caches; each other CPU decrements   *)
(* it exactly once, and only after its own crash_save_cpu and cache flush; *)
(* and the crashing CPU saves its own state only after its polling loop    *)
(* has ended.                                                              *)
(***************************************************************************)
C20_CrashCounterProtocol ==
    /\ waiting_for_crash_ipi >= 0
    /\ crashcpu.pc # "running" =>
          waiting_for_crash_ipi =
             Cardinality({ c \in OtherCpus : Online(c) /\ cpus[c].decs = 0 })
    /\ crashcpu.pc \in {"poll", "check", "save", "done"} /\ crashcpu.read = 0
          /\ (crashcpu.polls > 0 \/ crashcpu.pc # "poll") =>
          \A c \in OtherCpus : Online(c) => cpus[c].saved /\ cpus[c].flushed
    /\ \A c \in OtherCpus :
          /\ cpus[c].decs <= 1
          /\ cpus[c].decs = 1 => cpus[c].saved /\ cpus[c].flushed
          /\ cpus[c].pc = "stopped" => cpus[c].decs = 1
          /\ ~Online(c) => cpus[c] = CpuRunning
    /\ crashcpu.saved => crashcpu.pc = "done"
    /\ crashcpu.pc \in {"running", "ipi", "poll", "check"} => ~crashcpu.saved

\* both other CPUs have stopped and the crashing CPU, which had seen the
\* counter above zero, read it as zero and went on without a warning
C20_Witness ==
    /\ crashcpu.pc = "done"
    /\ crashcpu.online = 2
    /\ crashcpu.polls > 0
    /\ crashcpu.read = 0
    /\ ~crashcpu.warned
    /\ \A c \in 1 .. 2 : cpus[c].pc = "stopped"

(***************************************************************************)
(* Replay of the calls of the last operation                               *)
(***************************************************************************)
\* the domain the hardware has context d bound to just before call k of the
\* last operation
RECURSIVE BindingAt(_, _)
BindingAt(k, d) ==
    IF k <= 1 THEN lastop.pre.hwbind[d]
    ELSE LET c == hwlog[k - 1] IN
         IF c.dev = d /\ c.fn = "attach" /\ c.ret = "OK" THEN c.domain
         ELSE IF c.dev = d /\ c.fn = "detach" /\ BindingAt(k - 1, d) = c.domain
              THEN NoDomain
              ELSE BindingAt(k - 1, d)

(***************************************************************************)
(* C16.  Between the calls of init, start, stop and setstate, made one at  *)
(* a time, a context's attached flag is set exactly when the hardware has  *)
(* the context bound to the domain of the active pagetable; no context is  *)
(* bound to any other domain; and every detach names the domain the        *)
(* context was bound to.                                                   *)
(***************************************************************************)
C16_AttachedMirrorsHardware ==
    /\ \A sl \in DiscoveredSlots(iommu) :
          DevAt(iommu, sl).attached <=>
             /\ hwpagetable # NULL
             /\ hwbind[DevAt(iommu, sl).dev] = PtPriv(hwpagetable)
    /\ \A sl \in Slots \ DiscoveredSlots(iommu) : ~DevAt(iommu, sl).attached
    /\ \A d \in Devs :
          hwbind[d] # NoDomain =>
             /\ hwpagetable # NULL
             /\ hwbind[d] = PtPriv(hwpagetable)
             /\ \E sl \in DiscoveredSlots(iommu) : DevAt(iommu, sl).dev = d
    /\ \A k \in 1 .. Len(hwlog) :
          hwlog[k].fn = "detach" =>
             /\ hwlog[k].domain # NoDomain
             /\ BindingAt(k, hwlog[k].dev) = hwlog[k].domain

\* a switch away from the default pagetable whose attach the hardware
\* rejected at a later context: part of the contexts are attached
C16_Witness ==
    /\ lastop.name = "setstate"
    /\ WasSwitch
    /\ Issued(hwlog, "detach")
    /\ AttachRejected(hwlog)
    /\ hwpagetable \notin {NULL, defaultpagetable}
    /\ \E sl \in DiscoveredSlots(iommu) : DevAt(iommu, sl).attached
    /\ \E sl \in DiscoveredSlots(iommu) : ~DevAt(iommu, sl).attached

(***************************************************************************)
(* Order of the calls of the last operation                                *)
(***************************************************************************)
\* the contexts in the order the platform data names them, from unit i on
RECURSIVE DiscoveryOrder(_, _)
DiscoveryOrder(pd, i) ==
    IF i > Len(pd) THEN <<>>
    ELSE [n \in 1 .. Len(ExpectedOf(pd, i)) |-> ExpectedOf(pd, i)[n][1]]
         \o DiscoveryOrder(pd, i + 1)

\* the contexts the last operation issued fn for, in call order
RECURSIVE CallDevs(_, _)
CallDevs(log, fn) ==
    IF log = <<>> THEN <<>>
    ELSE (IF Head(log).fn = fn THEN << Head(log).dev >> ELSE <<>>)
         \o CallDevs(Tail(log), fn)

IsPrefix(a, b) == Len(a) <= Len(b) /\ a = SubSeq(b, 1, Len(a))
\* a is b with some elements left out
InOrderOf(a, b) ==
    \E f \in [1 .. Len(a) -> 1 .. Len(b)] :
        /\ \A n \in 1 .. Len(a) : a[n] = b[f[n]]
        /\ \A n \in 1 .. Len(a) - 1 : f[n] < f[n + 1]

(***************************************************************************)
(* C17.  The attach and detach loops visit the units in discovery order    *)
(* and, in each unit, its contexts in discovery order.  The attach calls   *)
(* of a start or of a switch are the contexts in discovery order, each     *)
(* once; when the hardware rejects one, it is the last attach call: no     *)
(* attach is issued for a later context.  The detach calls of an           *)
(* operation follow discovery order as well.                               *)
(***************************************************************************)
C17_LoopsFollowDiscoveryOrder ==
    priv = "iommu" /\ lastop.name \in {"start", "stop", "setstate"} =>
        LET order == DiscoveryOrder(pdata, 1)
            attached == CallDevs(hwlog, "attach")
            detached == CallDevs(hwlog, "detach")
        IN  /\ IsPrefix(attached, order)
            /\ attached # <<>> /\ ~AttachRejected(hwlog) => attached = order
            /\ \A k \in 1 .. Len(hwlog) :
                  hwlog[k].fn = "attach" /\ hwlog[k].ret # "OK" =>
                     \A n \in k + 1 .. Len(hwlog) : hwlog[n].fn # "attach"
            /\ InOrderOf(detached, order)
            /\ lastop.name \in {"stop", "setstate"} /\ detached # <<>> =>
                  \A n \in 1 .. Len(order) :
                     (\E k \in 1 .. Len(detached) : detached[k] = order[n]) <=>
                        lastop.pre.hwbind[order[n]] # NoDomain

\* a start on three contexts in two units that the hardware rejected at
\* the second context: two attach calls, then the first one detached again
C17_Witness ==
    /\ priv = "iommu"
    /\ lastop.name = "start"
    /\ lastop.ret = "EATTACH"
    /\ Len(pdata) = 2
    /\ Len(DiscoveryOrder(pdata, 1)) = 3
    /\ Len(CallDevs(hwlog, "attach")) = 2
    /\ Len(CallDevs(hwlog, "detach")) = 1

(***************************************************************************)
(* C18.  A switch waits for the device to idle, then detaches every        *)
(* context from the old domain, then stores the new pointer, then attaches *)
(* every context to the new domain: no detach is issued before the         *)
(* idle-wait has returned, every detach names the domain of the pagetable  *)
(* that was active, no context is attached to the new domain while one is  *)
(* still bound to the old one, and a switch to the null pagetable issues   *)
(* no attach.                                                              *)
(***************************************************************************)
C18_SwitchOrder ==
    WasSwitch =>
        LET old == PtPriv(lastop.pre.hwpagetable)
            new == PtPriv(lastop.pagetable)
        IN  /\ hwlog # <<>>
            /\ hwlog[1].fn = "kgsl_idle"
            /\ \A k \in 2 .. Len(hwlog) : hwlog[k].fn \in {"detach", "attach"}
            /\ \A k \in 1 .. Len(hwlog) :
                  /\ hwlog[k].fn = "detach" => hwlog[k].domain = old
                  /\ hwlog[k].fn = "attach" =>
                        /\ hwlog[k].domain = new
                        /\ \A n \in k + 1 .. Len(hwlog) : hwlog[n].fn # "detach"
                        /\ \A d \in Devs : BindingAt(k, d) \in {NoDomain, new}
                        /\ hwpagetable = lastop.pagetable
            /\ lastop.pagetable = NULL => ~Issued(hwlog, "attach")
            /\ Issued(hwlog, "detach") \/ Issued(hwlog, "attach") =>
                  hwpagetable = lastop.pagetable

\* a switch between two pagetables on three attached contexts: three
\* detach calls, then three attach calls
C18_Witness ==
    /\ WasSwitch
    /\ lastop.pre.hwpagetable # NULL
    /\ lastop.pagetable # NULL
    /\ Len(CallDevs(hwlog, "detach")) = 3
    /\ Len(CallDevs(hwlog, "attach")) = 3
    /\ ~AttachRejected(hwlog)

\* the attached flag of context d just before call k of the last operation
RECURSIVE FlagAt(_, _)
FlagAt(k, d) ==
    IF k <= 1
    THEN \E sl \in DiscoveredSlots(lastop.pre.iommu) :
            /\ DevAt(lastop.pre.iommu, sl).dev = d
            /\ DevAt(lastop.pre.iommu, sl).attached
    ELSE LET c == hwlog[k - 1] IN
         IF c.dev = d /\ c.fn = "attach" THEN c.ret = "OK"
         ELSE IF c.dev = d /\ c.fn = "detach" THEN FALSE
         ELSE FlagAt(k - 1, d)

\* no attach for a context whose flag is set, no detach for one whose flag
\* is clear
CallsFollowFlags ==
    \A k \in 1 .. Len(hwlog) :
        /\ hwlog[k].fn = "attach" => ~FlagAt(k, hwlog[k].dev)
        /\ hwlog[k].fn = "detach" => FlagAt(k, hwlog[k].dev)

(***************************************************************************)
(* C19 as stated.  Over any sequence of start, stop and setstate, failed   *)
(* attaches and rollbacks included, the hardware attach and detach calls   *)
(* issued for a context strictly alternate, beginning with an attach: no   *)
(* attach is issued for a context whose flag is set and no detach for one  *)
(* whose flag is clear.                                                    *)
(***************************************************************************)
C19_CallsAlternate ==
    /\ \A d \in Devs : ctxcalls[d].alt
    /\ CallsFollowFlags

(***************************************************************************)
(* C19 amended.  The attach calls that succeeded and the detach calls      *)
(* issued for a context strictly alternate, beginning with an attach; an   *)
(* attach the hardware rejected may be followed by another attach of the   *)
(* same context.  No attach is issued for a context whose flag is set and  *)
(* no detach for one whose flag is clear.                                  *)
(***************************************************************************)
C19_SuccessfulCallsAlternate ==
    /\ \A d \in Devs :
          /\ ctxcalls[d].altok
          /\ ctxcalls[d].lastok = "attach" <=> hwbind[d] # NoDomain
    /\ CallsFollowFlags

\* a context whose attach was rejected, then issued again and accepted,
\* then undone by a detach
C19_Witness ==
    \E d \in Devs :
        /\ ~ctxcalls[d].alt
        /\ ctxcalls[d].altok
        /\ ctxcalls[d].last = "detach"
        /\ Issued(hwlog, "detach")

====
